---------------------------- MODULE Spec2Model ----------------------------
(***************************************************************************)
(* Giphy GIF Replacer filter (src/main.py): the Filter object, its query   *)
(* cache, the command extractor, the GIF resolver and the inlet / outlet   *)
(* hooks.                                                                  *)
(*                                                                         *)
(* Text is a sequence of one-character strings.  A URL, an exception text  *)
(* and the fixed prefix of a placeholder are single opaque tokens of that  *)
(* sequence; none of them holds a double quote.                            *)
(***************************************************************************)
EXTENDS Integers, Sequences, FiniteSets, TLC

(***************************************************************************)
(* Bounds of the model.                                                    *)
(***************************************************************************)
\* Valves.MAX_GIF_RESULTS: the page size asked of the search API (the
\* default of the source is 10; the model keeps it small).
MAX_GIF_RESULTS == 2
\* Number of pieces a string content is assembled from.
MaxPieces == 2
\* Number of typed parts of a list content.
MaxParts == 2
\* Number of messages that precede the latest one in a body.
NumHistory == 1

(***************************************************************************)
(* Characters and text.                                                    *)
(***************************************************************************)
QUOTE == "\""
SPACE == " "

\* Python's \s, restricted to the whitespace the inputs use.
IsSpace(c) == c = SPACE

RECURSIVE Concat(_)
Concat(ss) == IF ss = <<>> THEN <<>> ELSE Head(ss) \o Concat(Tail(ss))

\* s[i..] starts with p
StartsWithAt(s, i, p) ==
    /\ i + Len(p) - 1 <= Len(s)
    /\ \A k \in 1..Len(p) : s[i + k - 1] = p[k]

\* The literal token of the pattern, r'/gif'.
GIF_TOKEN == <<"/", "g", "i", "f">>

\* First index >= i of s that is not whitespace (Len(s)+1 if none): \s*
RECURSIVE SkipSpaces(_, _)
SkipSpaces(s, i) ==
    IF i <= Len(s) /\ IsSpace(s[i]) THEN SkipSpaces(s, i + 1) ELSE i

\* First index >= i of s that holds a double quote (0 if none): [^"]*"
RECURSIVE NextQuote(_, _)
NextQuote(s, i) ==
    IF i > Len(s) THEN 0
    ELSE IF s[i] = QUOTE THEN i
    ELSE NextQuote(s, i + 1)

\* The match of r'/gif\s*"([^"]*)"' that starts exactly at index i, as
\* [ok, open, close]: the indexes of the two quotes.
MatchAt(s, i) ==
    IF ~StartsWithAt(s, i, GIF_TOKEN) THEN [ok |-> FALSE, open |-> 0, close |-> 0]
    ELSE LET j == SkipSpaces(s, i + 4)
         IN  IF j > Len(s) \/ s[j] # QUOTE
             THEN [ok |-> FALSE, open |-> 0, close |-> 0]
             ELSE LET k == NextQuote(s, j + 1)
                  IN  IF k = 0 THEN [ok |-> FALSE, open |-> 0, close |-> 0]
                      ELSE [ok |-> TRUE, open |-> j, close |-> k]

\* re.finditer: the non-overlapping matches, left to right, from index i,
\* each as [start, open, close].
RECURSIVE FindMatches(_, _)
FindMatches(s, i) ==
    IF i > Len(s) THEN <<>>
    ELSE LET m == MatchAt(s, i)
         IN  IF m.ok
             THEN <<[start |-> i, open |-> m.open, close |-> m.close]>>
                      \o FindMatches(s, m.close + 1)
             ELSE FindMatches(s, i + 1)

\* Filter._find_gif_commands: re.findall returns the captured groups.
find_gif_commands(content) ==
    LET ms == FindMatches(content, 1)
    IN  [n \in 1..Len(ms) |-> SubSeq(content, ms[n].open + 1, ms[n].close - 1)]

\* str.replace(old, new): every non-overlapping occurrence, left to right.
RECURSIVE Replace(_, _, _)
Replace(s, old, new) ==
    IF Len(s) < Len(old) \/ old = <<>> THEN s
    ELSE IF StartsWithAt(s, 1, old)
         THEN new \o Replace(SubSeq(s, Len(old) + 1, Len(s)), old, new)
         ELSE <<Head(s)>> \o Replace(Tail(s), old, new)

\* f'/gif "{query}"'
CommandText(query) == GIF_TOKEN \o <<SPACE, QUOTE>> \o query \o <<QUOTE>>

\* f"![GIF]({gif_url})"
Markup(gif_url) == <<"!", "[", "G", "I", "F", "]", "(">> \o gif_url \o <<")">>

\* The body of the loop of outlet: content.replace(command, markup).
ReplaceCommand(content, query, gif_url) ==
    Replace(content, CommandText(query), Markup(gif_url))

(***************************************************************************)
(* The search API.                                                         *)
(***************************************************************************)
\* images.fixed_width.url of the k-th result of a page that has one: the
\* URLs of one page differ from one another.
Url(k) == <<"U1", "U2", "U3", "U4">>[k]
\* A result of the API that carries no fixed_width rendition.
NO_RENDITION == "-"

\* The results of one page, TRUE for a result that has the rendition: at
\* most `limit` of them, all with the rendition or all but the first.
Pages ==
    {[i \in 1..n |-> ~(bare /\ i = 1)] : n \in 0..MAX_GIF_RESULTS, bare \in BOOLEAN}

\* data[i] of a page: the URL of the result, or the lack of it.
PageData(page) ==
    [i \in 1..Len(page) |->
        IF page[i] THEN Url(Cardinality({j \in 1..i : page[j]})) ELSE NO_RENDITION]

\* What requests.get(...).json() can give: an exception (transport or
\* parsing), or a document whose "data" holds the results of a page.
Responses ==
    {[kind |-> "error", data |-> <<>>]}
        \cup {[kind |-> "json", data |-> PageData(page)] : page \in Pages}

\* The text of the exception of a failed search.
EXC == "e"

(***************************************************************************)
(* Filter._get_gif_url                                                     *)
(***************************************************************************)
\* f"Error: Giphy API key missing for query: {query}"
MissingKeyText(query) == <<"Error: Giphy API key missing for query: ">> \o query
\* f"No GIF found for: {query}"
NoGifText(query) == <<"No GIF found for: ">> \o query
\* f"GIF search error: {e}"
SearchErrorText(e) == <<"GIF search error: ", e>>

\* Variant: the key test left out.
KeyMissing_Ignored(v) == FALSE

\* not self.valves.GIPHY_API_KEY
KeyMissing(v) == v.GIPHY_API_KEY = ""

\* Variant: the cache is never consulted.
InCache_Never(cache, query) == FALSE

\* query in self.gif_cache
InCache(cache, query) == query \in DOMAIN cache

\* self.gif_cache[query] = gifs
CacheStore(cache, query, gifs) ==
    [q \in DOMAIN cache \cup {query} |-> IF q = query THEN gifs ELSE cache[q]]

\* The list comprehension: the fixed_width URL of every result that has one.
RECURSIVE FixedWidthUrls(_)
FixedWidthUrls(data) ==
    IF data = <<>> THEN <<>>
    ELSE IF Head(data) = NO_RENDITION THEN FixedWidthUrls(Tail(data))
    ELSE <<Head(data)>> \o FixedWidthUrls(Tail(data))

\* Variant: a response without results is cached as an empty list.
Fetch_CachesEmpty(cache, query, resp) ==
    IF resp.kind = "error"
    THEN [done |-> TRUE, url |-> SearchErrorText(EXC), gifs |-> <<>>, cache |-> cache]
    ELSE LET gifs == FixedWidthUrls(resp.data)
         IN  [done |-> FALSE, url |-> <<>>, gifs |-> gifs,
              cache |-> CacheStore(cache, query, gifs)]

\* The else branch of the cache test: one request, then the try block.
\* [done, url, gifs, cache]: done when the function returns from here.
Fetch(cache, query, resp) ==
    IF resp.kind = "error"
    THEN [done |-> TRUE, url |-> SearchErrorText(EXC), gifs |-> <<>>, cache |-> cache]
    ELSE IF resp.data # <<>>
         THEN LET gifs == FixedWidthUrls(resp.data)
              IN  [done |-> FALSE, url |-> <<>>, gifs |-> gifs,
                   cache |-> CacheStore(cache, query, gifs)]
         ELSE [done |-> TRUE, url |-> NoGifText(query), gifs |-> <<>>, cache |-> cache]

\* Variant: the head is popped and not put back.
Rotate_DropHead(gifs) == Tail(gifs)

\* gifs[1:] + [gif_url]
Rotate(gifs) == Tail(gifs) \o <<Head(gifs)>>

\* Variant: the ring is rotated in random mode as well.
Select_AlwaysRotates(uv, cache, query, gifs) ==
    {[url |-> <<gifs[i]>>,
      cache |-> CacheStore(cache, query, Tail(gifs) \o <<Head(gifs)>>)] :
        i \in IF uv.RANDOM_GIF THEN 1..Len(gifs) ELSE {1}}

\* The selection: random.choice(gifs), or the head with the ring rotated.
\* The set of [url, cache] the call can end with.
Select(uv, cache, query, gifs) ==
    IF uv.RANDOM_GIF
    THEN {[url |-> <<gifs[i]>>, cache |-> cache] : i \in 1..Len(gifs)}
    ELSE {[url |-> <<gifs[1]>>, cache |-> CacheStore(cache, query, Rotate(gifs))]}

\* What the search answered, as the log of a call names it.
Answer(resp) ==
    IF resp.kind = "error" THEN "error"
    ELSE IF resp.data = <<>> THEN "empty" ELSE "results"

\* From the test of `gifs` to the return, f being what the cache test or
\* the fetch left: the set of [url, cache, requests, answer] to end with.
Pick(uv, query, f, requests, answer) ==
    IF f.done
    THEN {[url |-> f.url, cache |-> f.cache, requests |-> requests,
           answer |-> answer]}
    ELSE IF f.gifs = <<>>
    THEN {[url |-> NoGifText(query), cache |-> f.cache, requests |-> requests,
           answer |-> answer]}
    ELSE {[url |-> s.url, cache |-> s.cache, requests |-> requests,
           answer |-> answer] : s \in Select(uv, f.cache, query, f.gifs)}

\* Filter._get_gif_url(query): the set of [url, cache, requests, answer]
\* the call can end with, over what the search may answer when it is asked
\* and what random.choice may pick; requests is the sequence of queries
\* sent to the search API, answer what came back ("none": nothing asked).
get_gif_url(v, uv, cache, query) ==
    IF KeyMissing(v)
    THEN {[url |-> MissingKeyText(query), cache |-> cache, requests |-> <<>>,
           answer |-> "none"]}
    ELSE IF InCache(cache, query)
    THEN Pick(uv, query,
              [done |-> FALSE, url |-> <<>>, gifs |-> cache[query], cache |-> cache],
              <<>>, "none")
    ELSE UNION {Pick(uv, query, Fetch(cache, query, resp), <<query>>, Answer(resp)) :
                   resp \in Responses}

(***************************************************************************)
(* Messages the host hands to the hooks.                                   *)
(***************************************************************************)
QA == <<"a">>
QB == <<"b">>
\* The queries the host resolves directly.
Queries == {QA, QB}

\* A command with n whitespace characters between the token and the quote.
Cmd(n, query) ==
    GIF_TOKEN \o [k \in 1..n |-> SPACE] \o <<QUOTE>> \o query \o <<QUOTE>>

\* What string contents are assembled from: commands written with zero,
\* one and two spaces, a command of another query, and plain text.
Pieces == {Cmd(0, QA), Cmd(1, QA), Cmd(2, QA), Cmd(1, QB), <<SPACE, "h", "i">>}

\* The sequences over S of length lo..hi.
SeqsOf(S, lo, hi) == UNION {[1..n -> S] : n \in lo..hi}

\* The sequences of at most n elements of S whose elements after the first
\* are copies of one element.
Runs(S, n) ==
    {<<>>} \cup {<<p>> \o [i \in 1..k |-> q] : p \in S, q \in S, k \in 0..(n - 1)}

Texts == {Concat(ps) : ps \in Runs(Pieces, MaxPieces)}

\* {"content": "<text>"}
StrContent(t) == [kind |-> "str", text |-> t, parts |-> <<>>]
\* {"content": [ ...parts... ]}
ListContent(ps) == [kind |-> "list", text |-> <<>>, parts |-> ps]
\* a message without a "content" field
NoContent == [kind |-> "none", text |-> <<>>, parts |-> <<>>]

\* {"type": "text", "text": t}, and a part of another type whose payload
\* holds a command too.
TextPart(t) == [type |-> "text", text |-> t]
OtherPart == [type |-> "other", text |-> Cmd(1, QA)]

Parts == {TextPart(Cmd(1, QA)), TextPart(Cmd(1, QB)), OtherPart}

Contents ==
    {StrContent(t) : t \in Texts}
        \cup {ListContent(ps) : ps \in Runs(Parts, MaxParts)}
        \cup {NoContent}

Message(c) == [content |-> c]

\* An earlier message of the conversation: it holds a command as well.
HistoryMessages == {Message(StrContent(Cmd(1, QA)))}

\* The bodies the host calls the hooks with: no message at all, or a latest
\* message after NumHistory earlier ones.
Bodies ==
    {[messages |-> <<>>]}
        \cup {[messages |-> h \o <<Message(c)>>] :
                 h \in SeqsOf(HistoryMessages, NumHistory, NumHistory),
                 c \in Contents}

EmptyBody == [messages |-> <<>>]

(***************************************************************************)
(* The filter instance and the last call made on it.                       *)
(***************************************************************************)
VARIABLES
    valves,         \* self.valves: GIPHY_API_KEY, DEBUG_MODE
    user_valves,    \* self.user_valves: ENABLE_GIF_REPLACE, RANDOM_GIF
    gif_cache,      \* self.gif_cache: query -> list of URLs
    op,             \* the method that has just returned ("none": none since the frame was dropped)
    body0,          \* the body as the host passed it
    body,           \* the body the hook returned
    event_emitter,  \* whether the host passed __event_emitter__
    events,         \* what the call passed to __event_emitter__
    resolved,       \* the resolutions of the call, in order
    ring            \* per query, the current run of sequential selections

vars == <<valves, user_valves, gif_cache, op, body0, body, event_emitter,
          events, resolved, ring>>

config == <<valves, user_valves>>

EmptyCache == [q \in {} |-> <<>>]

\* Filter.__init__, with the valves as the host configures them: the key
\* of the environment or none, the two switches of each valve set.
Init ==
    /\ valves \in [GIPHY_API_KEY : {"", "KEY"}, DEBUG_MODE : BOOLEAN]
    /\ user_valves \in [ENABLE_GIF_REPLACE : BOOLEAN, RANDOM_GIF : BOOLEAN]
    /\ gif_cache = EmptyCache
    /\ op = "none"
    /\ body0 = EmptyBody
    /\ body = EmptyBody
    /\ event_emitter = FALSE
    /\ events = <<>>
    /\ resolved = <<>>
    /\ ring = EmptyCache

\* One entry of `resolved`: the query, the string returned, whether the
\* query was in the cache when the call began, what the search answered,
\* the requests the call sent, and gif_cache before and after the call.
Resolution(cache, query, out) ==
    [query |-> query, url |-> out.url, hit |-> query \in DOMAIN cache,
     answer |-> out.answer, requests |-> out.requests,
     before |-> cache, after |-> out.cache]

\* The ways one call of _get_gif_url(query) can go.
Resolutions(v, uv, cache, query) ==
    {Resolution(cache, query, out) : out \in get_gif_url(v, uv, cache, query)}

\* The run of sequential selections of r.query, after the resolution r
\* that found a list cached: the list L the run began with and the strings
\* returned since, begun anew once L has been gone through.
RingAfter(rg, v, uv, r) ==
    IF /\ v.GIPHY_API_KEY # ""
       /\ ~uv.RANDOM_GIF
       /\ r.query \in DOMAIN r.before
       /\ r.before[r.query] # <<>>
    THEN IF r.query \in DOMAIN rg /\ Len(rg[r.query].ret) < Len(rg[r.query].L)
         THEN CacheStore(rg, r.query, [L |-> rg[r.query].L,
                                       ret |-> Append(rg[r.query].ret, r.url)])
         ELSE CacheStore(rg, r.query, [L |-> r.before[r.query], ret |-> <<r.url>>])
    ELSE rg

RECURSIVE RingAfterAll(_, _, _, _)
RingAfterAll(rg, v, uv, rs) ==
    IF rs = <<>> THEN rg
    ELSE RingAfterAll(RingAfter(rg, v, uv, Head(rs)), v, uv, Tail(rs))

\* A direct call of Filter._get_gif_url(query).
GetGifUrl(query) ==
    /\ op = "none"
    /\ \E r \in Resolutions(valves, user_valves, gif_cache, query) :
          /\ gif_cache' = r.after
          /\ resolved' = <<r>>
          /\ ring' = RingAfter(ring, valves, user_valves, r)
    /\ op' = "get_gif_url"
    /\ body0' = EmptyBody
    /\ body' = EmptyBody
    /\ event_emitter' = FALSE
    /\ events' = <<>>
    /\ UNCHANGED config

\* Variant: the enable preference is not looked at.
ReplaceDisabled_Ignored(uv) == FALSE

\* not self.user_valves.ENABLE_GIF_REPLACE
ReplaceDisabled(uv) == ~uv.ENABLE_GIF_REPLACE

\* Filter.inlet(body): both branches return body.
Inlet(b) ==
    /\ op = "none"
    /\ op' = "inlet"
    /\ body0' = b
    /\ body' = IF ReplaceDisabled(user_valves) THEN b ELSE b
    /\ event_emitter' = FALSE
    /\ events' = <<>>
    /\ resolved' = <<>>
    /\ UNCHANGED <<config, gif_cache, ring>>

(***************************************************************************)
(* Filter.outlet                                                           *)
(***************************************************************************)
\* `for query in gif_commands`: resolve, then replace, command after
\* command.  The set of [text, cache, resolved] the loop can end with.
RECURSIVE CommandLoop(_, _, _, _, _)
CommandLoop(v, uv, cache, text, gif_commands) ==
    IF gif_commands = <<>>
    THEN {[text |-> text, cache |-> cache, resolved |-> <<>>]}
    ELSE LET query == Head(gif_commands)
         IN  UNION {{[text |-> rest.text, cache |-> rest.cache,
                      resolved |-> <<r>> \o rest.resolved] :
                         rest \in CommandLoop(v, uv, r.after,
                                              ReplaceCommand(text, query, r.url),
                                              Tail(gif_commands))} :
                       r \in Resolutions(v, uv, cache, query)}

\* Variant: every part is taken for a text part.
IsTextPart_Any(part) == TRUE

\* item.get("type") == "text"
IsTextPart(part) == part.type = "text"

\* item["text"] = text, item being part i of the content
StoreItem(parts, i, text) == [parts EXCEPT ![i].text = text]

\* `for item in last_message["content"]`, from part i on.  The set of
\* [parts, cache, resolved] the loop can end with.
RECURSIVE ItemLoop(_, _, _, _, _)
ItemLoop(v, uv, cache, parts, i) ==
    IF i > Len(parts)
    THEN {[parts |-> parts, cache |-> cache, resolved |-> <<>>]}
    ELSE IF ~IsTextPart(parts[i])
    THEN ItemLoop(v, uv, cache, parts, i + 1)
    ELSE UNION {{[parts |-> rest.parts, cache |-> rest.cache,
                  resolved |-> x.resolved \o rest.resolved] :
                     rest \in ItemLoop(v, uv, x.cache,
                                       StoreItem(parts, i, x.text), i + 1)} :
                   x \in CommandLoop(v, uv, cache, parts[i].text,
                                     find_gif_commands(parts[i].text))}

\* messages[-1]
LastMessage(b) == b.messages[Len(b.messages)]

\* last_message["content"] = content
StoreContent(b, c) ==
    [b EXCEPT !.messages[Len(b.messages)].content = c]

\* Variant: the event goes out whenever an emitter was passed.
ShouldEmit_NoDebugTest(v, emitter) == emitter

\* self.valves.DEBUG_MODE and __event_emitter__
ShouldEmit(v, emitter) == v.DEBUG_MODE /\ emitter

StatusEvent ==
    [type |-> "status",
     data |-> [description |-> "GIF Filter: Commands processed", done |-> TRUE]]

\* One entry of `events`: the event, and what the emitter finds done when
\* it is awaited: the number of resolutions made and the body.
Emission(event, p) == [event |-> event, done |-> Len(p.resolved), body |-> p.body]

\* Filter.outlet(body, __event_emitter__ = emitter): the set of
\* [body, cache, resolved, events] the call can end with.
outlet(v, uv, cache, b, emitter) ==
    LET untouched == [body |-> b, cache |-> cache, resolved |-> <<>>]
        returned(p, es) == [body |-> p.body, cache |-> p.cache,
                            resolved |-> p.resolved, events |-> es]
    IN  IF ReplaceDisabled(uv)
        THEN {returned(untouched, <<>>)}
        ELSE IF b.messages = <<>>
        THEN {returned(untouched, <<>>)}
        ELSE LET c == LastMessage(b).content
                 processed ==
                     IF c.kind = "str"
                     THEN {[body |-> StoreContent(b, StrContent(x.text)),
                            cache |-> x.cache, resolved |-> x.resolved] :
                              x \in CommandLoop(v, uv, cache, c.text,
                                                find_gif_commands(c.text))}
                     ELSE IF c.kind = "list"
                     THEN {[body |-> StoreContent(b, ListContent(x.parts)),
                            cache |-> x.cache, resolved |-> x.resolved] :
                              x \in ItemLoop(v, uv, cache, c.parts, 1)}
                     ELSE {untouched}
             IN  {returned(p, IF ShouldEmit(v, emitter)
                              THEN <<Emission(StatusEvent, p)>> ELSE <<>>) :
                      p \in processed}

\* The host calls outlet(body, __event_emitter__ = emitter).
Outlet(b, emitter) ==
    /\ op = "none"
    /\ \E o \in outlet(valves, user_valves, gif_cache, b, emitter) :
          /\ body' = o.body
          /\ gif_cache' = o.cache
          /\ resolved' = o.resolved
          /\ events' = o.events
          /\ ring' = RingAfterAll(ring, valves, user_valves, o.resolved)
    /\ op' = "outlet"
    /\ body0' = b
    /\ event_emitter' = emitter
    /\ UNCHANGED config

\* The host has taken the result of the call (the hooks return body,
\* _get_gif_url the string in `resolved`) and the frame is gone.
Return ==
    /\ op # "none"
    /\ op' = "none"
    /\ body0' = EmptyBody
    /\ body' = EmptyBody
    /\ event_emitter' = FALSE
    /\ events' = <<>>
    /\ resolved' = <<>>
    /\ UNCHANGED <<config, gif_cache, ring>>

Next ==
    \/ \E q \in Queries : GetGifUrl(q)
    \/ \E b \in Bodies : Inlet(b)
    \/ \E b \in Bodies, emitter \in BOOLEAN : Outlet(b, emitter)
    \/ Return

Spec == Init /\ [][Next]_vars

(***************************************************************************)
(* Vocabulary of the properties.                                           *)
(***************************************************************************)
\* The call `o` has returned: the frame holds what it did.
Returning(o) == op = o

\* The log of a call is one history of gif_cache: every resolution begins
\* with the cache the one before left, and the last one left gif_cache.
LogChained ==
    /\ \A n \in 1..(Len(resolved) - 1) : resolved[n + 1].before = resolved[n].after
    /\ resolved # <<>> => resolved[Len(resolved)].after = gif_cache

\* The events passed to the emitter.
Emitted == [i \in 1..Len(events) |-> events[i].event]

\* `sub` occurs in `text`.
Contains(text, sub) == \E i \in 1..(Len(text) + 1) : StartsWithAt(text, i, sub)

\* L rotated left k times.
RotateBy(L, k) == SubSeq(L, k + 1, Len(L)) \o SubSeq(L, 1, k)

\* The last resolution of the call.
LastResolution == resolved[Len(resolved)]

\* s with its n-th match and the following ones replaced by the markup of
\* urls[n], ..., the text from pos on that lies outside the matches kept.
RECURSIVE Substituted(_, _, _, _, _)
Substituted(s, ms, urls, n, pos) ==
    IF n > Len(ms) THEN SubSeq(s, pos, Len(s))
    ELSE SubSeq(s, pos, ms[n].start - 1) \o Markup(urls[n])
             \o Substituted(s, ms, urls, n + 1, ms[n].close + 1)

\* The text of the latest message, as passed and as returned.
Text0 == LastMessage(body0).content.text
Text1 == LastMessage(body).content.text

StrOutletReturns ==
    /\ Returning("outlet")
    /\ user_valves.ENABLE_GIF_REPLACE
    /\ body0.messages # <<>>
    /\ LastMessage(body0).content.kind = "str"

(***************************************************************************)
(* C1  Sequential ring.  With a key and random selection off, the calls    *)
(* of a run on a query cached with L return L[1], L[2], ... in that order, *)
(* the cached list is L rotated by the number of calls made so far, and    *)
(* after Len(L) calls it is L again.                                       *)
(***************************************************************************)
C1_SequentialRing ==
    \A q \in DOMAIN ring :
        LET L == ring[q].L
            k == Len(ring[q].ret)
        IN  /\ k \in 1..Len(L)
            /\ \A i \in 1..k : ring[q].ret[i] = <<L[i]>>
            /\ q \in DOMAIN gif_cache
            /\ gif_cache[q] = RotateBy(L, k)
            /\ k = Len(L) => gif_cache[q] = L

\* A direct call has just ended a full run over a list of two or more URLs.
C1_Witness ==
    /\ Returning("get_gif_url")
    /\ LET q == resolved[1].query
       IN  /\ q \in DOMAIN ring
           /\ Len(ring[q].L) >= 2
           /\ Len(ring[q].ret) = Len(ring[q].L)
           /\ resolved[1].hit

(***************************************************************************)
(* C2  Duplicate commands in one message.  Sequential rotation, a key, a   *)
(* string content whose commands are all written /gif "q" with the same q  *)
(* at least twice, every resolution served from the cache with pairwise    *)
(* distinct URLs: the i-th command becomes the markup of the URL of the    *)
(* i-th resolution.                                                        *)
(***************************************************************************)
C2_DuplicateCommands ==
    LET ms == FindMatches(Text0, 1)
    IN  ( /\ StrOutletReturns
          /\ valves.GIPHY_API_KEY # ""
          /\ ~user_valves.RANDOM_GIF
          /\ Len(ms) >= 2
          /\ Len(resolved) = Len(ms)
          /\ \A n \in 1..Len(ms) :
                /\ ms[n].open = ms[n].start + 5
                /\ resolved[n].query = resolved[1].query
                /\ resolved[n].hit
          /\ \A m, n \in 1..Len(ms) : m # n => resolved[m].url # resolved[n].url )
        => Text1 = Substituted(Text0, ms, [n \in 1..Len(ms) |-> resolved[n].url], 1, 1)

(***************************************************************************)
(* C3  Every command the extractor recognises is substituted.  When outlet *)
(* returns a string content, every match of the extractor in the input has *)
(* been replaced by the markup of a result the resolver gave for its query *)
(* and the text outside the matches is unchanged.                          *)
(***************************************************************************)
C3_AllCommandsSubstituted ==
    StrOutletReturns =>
        LET ms == FindMatches(Text0, 1)
            qs == find_gif_commands(Text0)
        IN  \E f \in [1..Len(ms) -> 1..Len(resolved)] :
               /\ \A n \in 1..Len(ms) : resolved[f[n]].query = qs[n]
               /\ Text1 = Substituted(Text0, ms,
                                      [n \in 1..Len(ms) |-> resolved[f[n]].url], 1, 1)

(***************************************************************************)
(* C4  A cached query is never re-fetched.  A resolution of a query that   *)
(* has a cache entry (an empty list included) sends no request; a          *)
(* resolution sends at most one request, for its own query, and only with  *)
(* a key and without an entry; no step removes an entry.                   *)
(***************************************************************************)
C4_Requests ==
    \A n \in 1..Len(resolved) :
        LET r == resolved[n]
        IN  /\ r.hit = (r.query \in DOMAIN r.before)
            /\ r.hit => r.requests = <<>>
            /\ Len(r.requests) <= 1
            /\ DOMAIN r.before \subseteq DOMAIN r.after
            /\ r.requests # <<>> =>
                  /\ r.requests = <<r.query>>
                  /\ valves.GIPHY_API_KEY # ""
                  /\ ~r.hit

C4_EntriesStay == \A q \in DOMAIN gif_cache : q \in DOMAIN gif_cache'

C4_NeverRefetched == [](C4_Requests /\ LogChained) /\ [][C4_EntriesStay]_vars

\* A resolution was served from an entry whose list is empty.
C4_Witness ==
    /\ resolved # <<>>
    /\ LastResolution.hit
    /\ gif_cache[LastResolution.query] = <<>>
    /\ LastResolution.requests = <<>>

(***************************************************************************)
(* C5  Failures are not cached and not retried.  A resolution whose search *)
(* raised, or answered with no results, returns the placeholder of that    *)
(* failure, has sent exactly one request, and leaves gif_cache as it was;  *)
(* the query is still absent from the cache, and the next resolution of it *)
(* in the same call sends the request again.                               *)
(***************************************************************************)
Failed(r) == r.answer \in {"error", "empty"}

C5_Placeholder ==
    \A n \in 1..Len(resolved) :
        LET r == resolved[n]
        IN  /\ Failed(r) =>
                  /\ r.url = IF r.answer = "error"
                             THEN <<"GIF search error: ", EXC>>
                             ELSE <<"No GIF found for: ">> \o r.query
                  /\ r.requests = <<r.query>>
            /\ \A m \in 1..(n - 1) :
                  ( /\ Failed(resolved[m])
                    /\ \A k \in m..n : resolved[k].query = r.query
                    /\ \A k \in (m + 1)..(n - 1) : Failed(resolved[k]) )
                  => r.requests = <<r.query>>

C5_CacheKept ==
    \A n \in 1..Len(resolved) :
        Failed(resolved[n])
            => /\ resolved[n].after = resolved[n].before
               /\ resolved[n].query \notin DOMAIN resolved[n].after

C5_FailuresNotCached == C5_Placeholder /\ C5_CacheKept /\ LogChained

\* A search failed and the next resolution of the same query asked again.
C5_Witness ==
    /\ Returning("outlet")
    /\ Len(resolved) >= 2
    /\ resolved[1].answer = "error"
    /\ resolved[2].query = resolved[1].query
    /\ resolved[2].answer = "results"
    /\ resolved[2].requests # <<>>

(***************************************************************************)
(* C6  Random selection leaves the cache untouched.  With random selection *)
(* on, a resolution of a query cached with a non-empty list returns an     *)
(* element of that list and leaves the whole gif_cache as it was.          *)
(***************************************************************************)
C6_RandomKeepsCache ==
    /\ LogChained
    /\ \A n \in 1..Len(resolved) :
          LET r == resolved[n]
          IN  ( /\ user_valves.RANDOM_GIF
                /\ r.query \in DOMAIN r.before
                /\ r.before[r.query] # <<>> )
              => LET L == r.before[r.query]
                 IN  /\ \E i \in 1..Len(L) : r.url = <<L[i]>>
                     /\ r.after = r.before

\* A random pick other than the head of a cached list of two.
C6_Witness ==
    /\ user_valves.RANDOM_GIF
    /\ resolved # <<>>
    /\ LastResolution.hit
    /\ Len(gif_cache[LastResolution.query]) >= 2
    /\ LastResolution.url = <<gif_cache[LastResolution.query][2]>>

(***************************************************************************)
(* C7  Missing API key.  With GIPHY_API_KEY empty every resolution returns *)
(* the missing-key placeholder, which holds the query text, sends no       *)
(* request and changes no cache entry: the cache stays empty.              *)
(***************************************************************************)
C7_NoKey ==
    valves.GIPHY_API_KEY = "" =>
        /\ gif_cache = EmptyCache
        /\ \A n \in 1..Len(resolved) :
              /\ resolved[n].url[1] = "Error: Giphy API key missing for query: "
              /\ Contains(Tail(resolved[n].url), resolved[n].query)
              /\ resolved[n].requests = <<>>

C7_MissingKey ==
    []C7_NoKey /\ [][valves.GIPHY_API_KEY = "" => gif_cache' = gif_cache]_vars

\* outlet has resolved a command without a key.
C7_Witness ==
    /\ Returning("outlet")
    /\ valves.GIPHY_API_KEY = ""
    /\ resolved # <<>>
    /\ Text1 # Text0

(***************************************************************************)
(* C8  Disabled means untouched.  With ENABLE_GIF_REPLACE false, outlet    *)
(* returns the body as passed, resolves nothing (no request, no change of  *)
(* gif_cache) and emits nothing, debug mode and emitter notwithstanding;   *)
(* inlet returns the body as passed whatever the preference.               *)
(***************************************************************************)
C8_Returned ==
    /\ (op = "outlet" /\ ~user_valves.ENABLE_GIF_REPLACE) =>
          /\ body = body0
          /\ resolved = <<>>
          /\ events = <<>>
    /\ op = "inlet" =>
          /\ body = body0
          /\ resolved = <<>>
          /\ events = <<>>

C8_CacheKept ==
    ((op' = "outlet" /\ ~user_valves.ENABLE_GIF_REPLACE) \/ op' = "inlet")
        => gif_cache' = gif_cache

C8_DisabledUntouched == []C8_Returned /\ [][C8_CacheKept]_vars

\* Disabled outlet, debug on, emitter passed, a command in the latest message.
C8_Witness ==
    /\ Returning("outlet")
    /\ ~user_valves.ENABLE_GIF_REPLACE
    /\ valves.DEBUG_MODE
    /\ event_emitter
    /\ body0.messages # <<>>
    /\ LastMessage(body0).content.kind = "str"
    /\ find_gif_commands(Text0) # <<>>

(***************************************************************************)
(* C9  Debug status event.  As claimed: every outlet call with replacement *)
(* enabled, debug mode on and an emitter emits exactly one status event,   *)
(* whatever the body holds; without debug mode or emitter it emits none.   *)
(***************************************************************************)
C9_OneEventAlways ==
    Returning("outlet") =>
        /\ ( /\ user_valves.ENABLE_GIF_REPLACE
             /\ valves.DEBUG_MODE
             /\ event_emitter ) => Emitted = <<StatusEvent>>
        /\ (~valves.DEBUG_MODE \/ ~event_emitter) => Emitted = <<>>

(***************************************************************************)
(* C9 as amended.  With replacement enabled, debug mode on, an emitter and *)
(* a non-empty message list, outlet emits exactly one status event, after  *)
(* every resolution and substitution and before it returns; with an empty  *)
(* message list, without debug mode or without emitter it emits none.      *)
(***************************************************************************)
C9_AtReturn ==
    Returning("outlet") =>
        /\ ( /\ user_valves.ENABLE_GIF_REPLACE
             /\ valves.DEBUG_MODE
             /\ event_emitter
             /\ body0.messages # <<>> ) => Emitted = <<StatusEvent>>
        /\ body0.messages = <<>> => Emitted = <<>>
        /\ (~valves.DEBUG_MODE \/ ~event_emitter) => Emitted = <<>>

\* When the emitter is awaited every resolution of the call has been made
\* and the body is the one the call returns; only outlet emits.
C9_Order ==
    /\ \A i \in 1..Len(events) :
          /\ events[i].done = Len(resolved)
          /\ events[i].body = body
    /\ events # <<>> => op = "outlet"

C9_StatusEvent == C9_AtReturn /\ C9_Order

\* The event of a call whose latest message has no content field.
C9_Witness ==
    /\ Returning("outlet")
    /\ Emitted = <<StatusEvent>>
    /\ LastMessage(body0).content.kind = "none"

(***************************************************************************)
(* C10  List content frame.  When the latest message holds a list of parts *)
(* outlet returns the same number of parts in the same order, every part   *)
(* that is not of type "text" as passed, every text part as the loop of    *)
(* resolutions and replacements over the commands of its own text leaves   *)
(* it, and every other message as passed.                                  *)
(***************************************************************************)
\* The loop of outlet over the commands qs of one text, urls[n] resolved for qs[n].
RECURSIVE LoopOver(_, _, _)
LoopOver(text, qs, urls) ==
    IF qs = <<>> THEN text
    ELSE LoopOver(Replace(text, CommandText(Head(qs)), Markup(Head(urls))),
                  Tail(qs), Tail(urls))

\* The number of commands in the text parts before part i.
RECURSIVE CommandsBefore(_, _)
CommandsBefore(parts, i) ==
    IF i <= 1 THEN 0
    ELSE CommandsBefore(parts, i - 1)
             + (IF parts[i - 1].type = "text"
                THEN Len(find_gif_commands(parts[i - 1].text)) ELSE 0)

C10_ListFrame ==
    ( /\ Returning("outlet")
      /\ user_valves.ENABLE_GIF_REPLACE
      /\ body0.messages # <<>>
      /\ LastMessage(body0).content.kind = "list" )
    => LET p0 == LastMessage(body0).content.parts
           p1 == LastMessage(body).content.parts
       IN  /\ Len(body.messages) = Len(body0.messages)
           /\ \A m \in 1..(Len(body0.messages) - 1) :
                 body.messages[m] = body0.messages[m]
           /\ LastMessage(body).content.kind = "list"
           /\ Len(p1) = Len(p0)
           /\ Len(resolved) = CommandsBefore(p0, Len(p0) + 1)
           /\ \A i \in 1..Len(p0) :
                 IF p0[i].type # "text" THEN p1[i] = p0[i]
                 ELSE LET qs == find_gif_commands(p0[i].text)
                          o  == CommandsBefore(p0, i)
                      IN  /\ p1[i].type = "text"
                          /\ \A n \in 1..Len(qs) : resolved[o + n].query = qs[n]
                          /\ p1[i].text =
                                LoopOver(p0[i].text, qs,
                                         [n \in 1..Len(qs) |-> resolved[o + n].url])

\* A text part rewritten next to a part of another type.
C10_Witness ==
    /\ Returning("outlet")
    /\ body0.messages # <<>>
    /\ LastMessage(body0).content.kind = "list"
    /\ LET p0 == LastMessage(body0).content.parts
           p1 == LastMessage(body).content.parts
       IN  /\ Len(p0) = 2
           /\ p0[1].type = "other"
           /\ p0[2].type = "text"
           /\ p1[2] # p0[2]
=============================================================================
